---------------------------- MODULE Spec2Model ----------------------------
(*
  Model of the ESP8266 IoT ingestion-and-query service.

    backend/server.py            Flask handlers over one SQLite table
    dashboard/streamlit_app.py   the administrative "Clear All Data" block

  Representation.
    * A nullable column value is a sequence of length <= 1: <<>> is SQL NULL /
      Python None, <<v>> is the value v.
    * Measurements are whole numbers (22, 60, 150).  Values returned by
      /api/stats are rounded to one decimal; they are represented in tenths
      (220 stands for 22.0).
    * Time is in seconds, the precision of CURRENT_TIMESTAMP.
    * A JSON request body is [kind, data]; kind = "mapping" carries a function
      from a subset of the keys to values.
*)
EXTENDS Integers, Sequences, FiniteSets, TLC

(* ------------------------------ bounds -------------------------------- *)
MaxId == 2
MaxIdAll == 2
MaxTicks == 1
NumThreads == 2

(* -------------------------- program constants -------------------------- *)
DefaultLimit == 100
DaySeconds == 86400

NULL == <<>>
Val(v) == <<v>>

Keys == {"device_id", "temperature", "humidity", "gas_analog", "gas_digital"}

VARIABLES
    tableExists,   \* sensor_readings has been created in DB_PATH
    rows,          \* committed rows of sensor_readings, in rowid order
    seq,           \* sqlite_sequence: the largest id AUTOINCREMENT ever assigned
    clock,         \* the server's CURRENT_TIMESTAMP / datetime('now'), seconds
    req,           \* the request handled last
    resp,          \* the response to it
    pc,            \* per worker thread: position inside receive_sensor_data
    conn,          \* per worker thread: the row written in its open transaction
    lock,          \* the thread holding SQLite's write lock, 0 when free
    created        \* the number of 201 acknowledgements sent so far

vars == <<tableExists, rows, seq, clock, req, resp, pc, conn, lock, created>>

Threads == 1..NumThreads

(* ------------------------------ inputs --------------------------------- *)
\* The payload of the spec's scenario and a second one differing in every field.
PFull == [device_id |-> Val("esp1"), temperature |-> Val(22), humidity |-> Val(60),
          gas_analog |-> Val(150), gas_digital |-> Val(0)]
PAlt  == [device_id |-> Val("esp2"), temperature |-> Val(0), humidity |-> Val(41),
          gas_analog |-> Val(7), gas_digital |-> Val(1)]

\* A mapping with exactly the keys ks, values taken from PFull.
Restrict(p, ks) == [k \in ks |-> p[k]]

AllPayloads == {Restrict(PFull, ks) : ks \in SUBSET Keys}

\* PFull, PAlt and a payload without device_id, temperature and gas_digital.
PPartial == Restrict(PFull, {"humidity", "gas_analog"})
Payloads == {PFull, PAlt, PPartial}

Mapping(p) == [kind |-> "mapping", data |-> p]
\* Bodies request.get_json() rejects, and JSON values that are not objects.
NonMappings == {[kind |-> "unparseable", data |-> <<>>],
                [kind |-> "list", data |-> <<>>]}

\* The limit query parameter: absent or non-numeric (NULL), or an integer.
Limits == {NULL, Val(1), Val(2)}

Bodies == {Mapping(p) : p \in Payloads} \cup NonMappings
AllBodies == {Mapping(p) : p \in AllPayloads}

NoArg == <<>>
Request(op, arg, fault) == [op |-> op, arg |-> arg, fault |-> fault]
Response(op, status, ok, body) == [op |-> op, status |-> status, ok |-> ok, body |-> body]

(* ------------------------------ storage -------------------------------- *)
Min(a, b) == IF a < b THEN a ELSE b

\* dict.get(key, default)
Get(data, key, default) == IF key \in DOMAIN data THEN data[key] ELSE default

\* Extract with data.get(key, 0) for the measurements.
ExtractZeroDefault(data) ==
    [device_id   |-> Get(data, "device_id", Val("unknown")),
     temperature |-> Get(data, "temperature", Val(0)),
     humidity    |-> Get(data, "humidity", Val(0)),
     gas_analog  |-> Get(data, "gas_analog", Val(0)),
     gas_digital |-> Get(data, "gas_digital", Val(0))]

\* Lines 47-51: the five values bound to the INSERT's parameters.
Extract(data) ==
    [device_id   |-> Get(data, "device_id", Val("unknown")),
     temperature |-> Get(data, "temperature", NULL),
     humidity    |-> Get(data, "humidity", NULL),
     gas_analog  |-> Get(data, "gas_analog", NULL),
     gas_digital |-> Get(data, "gas_digital", NULL)]

\* The row the INSERT creates: id from AUTOINCREMENT, timestamp from the
\* column default CURRENT_TIMESTAMP, the other columns from the parameters.
NewRow(id, now, f) ==
    [id |-> id, timestamp |-> now, device_id |-> f.device_id,
     temperature |-> f.temperature, humidity |-> f.humidity,
     gas_analog |-> f.gas_analog, gas_digital |-> f.gas_digital]

\* A read or write reaches the table: the medium works and the table exists.
StorageOk(fault) == ~fault /\ tableExists

StorageMessage(fault) == IF fault THEN "unable to open database file"
                         ELSE "no such table: sensor_readings"

ParseMessage(body) == IF body.kind = "unparseable"
                      THEN "400 Bad Request: The browser (or proxy) sent a request that this server could not understand."
                      ELSE "object has no attribute 'get'"

Init ==
    /\ tableExists = FALSE
    /\ rows = <<>>
    /\ seq = 0
    /\ clock = 0
    /\ req = Request("none", NoArg, FALSE)
    /\ resp = Response("none", 0, TRUE, NoArg)
    /\ pc = [t \in Threads |-> "idle"]
    /\ conn = [t \in Threads |-> <<>>]
    /\ lock = 0
    /\ created = 0

ThreadsUnchanged == UNCHANGED <<pc, conn, lock>>
ConcUnchanged == UNCHANGED <<pc, conn, lock, created>>

\* init_database with DROP TABLE before CREATE TABLE.
InitDatabaseRecreate(fault) ==
    /\ req' = Request("Initialize", NoArg, fault)
    /\ IF fault
       THEN /\ resp' = Response("Initialize", 0, FALSE, "unable to open database file")
            /\ UNCHANGED <<tableExists, rows, seq>>
       ELSE /\ tableExists' = TRUE
            /\ rows' = <<>>
            /\ resp' = Response("Initialize", 0, TRUE, NoArg)
            /\ UNCHANGED seq
    /\ UNCHANGED clock
    /\ ConcUnchanged

(* init_database: CREATE TABLE IF NOT EXISTS. *)
InitDatabase(fault) ==
    /\ req' = Request("Initialize", NoArg, fault)
    /\ IF fault
       THEN /\ resp' = Response("Initialize", 0, FALSE, "unable to open database file")
            /\ UNCHANGED <<tableExists, rows, seq>>
       ELSE /\ tableExists' = TRUE
            /\ resp' = Response("Initialize", 0, TRUE, NoArg)
            /\ UNCHANGED <<rows, seq>>
    /\ UNCHANGED clock
    /\ ConcUnchanged

Initialize == \E fault \in BOOLEAN : InitDatabase(fault)

(* receive_sensor_data, POST /api/sensor-data, handled without interleaving. *)
ReceiveSensorData(body, fault, cap) ==
    /\ seq < cap
    /\ req' = Request("Ingest", body, fault)
    /\ IF body.kind # "mapping"
       THEN /\ resp' = Response("Ingest", 400, FALSE,
                                [status |-> "error", message |-> ParseMessage(body)])
            /\ UNCHANGED <<rows, seq, created>>
       ELSE IF ~StorageOk(fault)
       THEN /\ resp' = Response("Ingest", 400, FALSE,
                                [status |-> "error", message |-> StorageMessage(fault)])
            /\ UNCHANGED <<rows, seq, created>>
       ELSE /\ rows' = Append(rows, NewRow(seq + 1, clock, Extract(body.data)))
            /\ seq' = seq + 1
            /\ created' = created + 1
            /\ resp' = Response("Ingest", 201, TRUE,
                                [status |-> "success", message |-> "Data stored successfully"])
    /\ UNCHANGED <<tableExists, clock>>
    /\ ThreadsUnchanged

Ingest == \E body \in Bodies, fault \in BOOLEAN : ReceiveSensorData(body, fault, MaxId)

(* Time passes between requests: a second, or a second more than a day. *)
TickSteps == {1, DaySeconds + 1}
Ticks(c) == (c \div (DaySeconds + 1)) + (c % (DaySeconds + 1))

Tick ==
    /\ Ticks(clock) < MaxTicks
    /\ \E d \in TickSteps : clock' = clock + d
    /\ UNCHANGED <<tableExists, rows, seq, req, resp>>
    /\ ConcUnchanged

(* ------------------------------- reads --------------------------------- *)
Bijections(n) == {f \in [1..n -> 1..n] : \A i, j \in 1..n : f[i] = f[j] => i = j}

\* ORDER BY timestamp DESC names no second key: every arrangement of the rows
\* with non-increasing timestamps is a result SQLite may produce.
OrderByTimestampDesc(tbl) ==
    {[i \in 1..Len(tbl) |-> tbl[f[i]]] :
        f \in {g \in Bijections(Len(tbl)) :
                 \A i \in 1..(Len(tbl) - 1) : tbl[g[i]].timestamp >= tbl[g[i + 1]].timestamp}}

\* LIMIT n: a negative n means no limit.
SqlLimit(s, n) == IF n < 0 THEN s ELSE SubSeq(s, 1, Min(n, Len(s)))

\* request.args.get('limit', 100, type=int)
LimitArg(arg) == IF arg = NULL THEN DefaultLimit ELSE arg[1]

\* Lines 101-109: the record built from one fetched row.
RecentRecord(r) ==
    [id |-> r.id, timestamp |-> r.timestamp, device_id |-> r.device_id,
     temperature |-> r.temperature, humidity |-> r.humidity,
     gas_analog |-> r.gas_analog, gas_digital |-> r.gas_digital]

\* Lines 134-140: the record built from the row of get_latest's SELECT.
LatestRecord(r) ==
    [timestamp |-> r.timestamp, temperature |-> r.temperature, humidity |-> r.humidity,
     gas_analog |-> r.gas_analog, gas_digital |-> r.gas_digital]

(* get_sensor_data, GET /api/sensor-data?limit=N *)
GetSensorData(arg, fault) ==
    /\ req' = Request("QueryRecent", arg, fault)
    /\ IF ~StorageOk(fault)
       THEN resp' = Response("QueryRecent", 400, FALSE, [error |-> StorageMessage(fault)])
       ELSE \E fetched \in OrderByTimestampDesc(rows) :
              resp' = Response("QueryRecent", 200, TRUE,
                               [i \in 1..Len(SqlLimit(fetched, LimitArg(arg))) |->
                                    RecentRecord(fetched[i])])
    /\ UNCHANGED <<tableExists, rows, seq, clock>>
    /\ ConcUnchanged

QueryRecent == \E arg \in Limits, fault \in BOOLEAN : GetSensorData(arg, fault)

(* get_latest, GET /api/latest *)
GetLatest(fault) ==
    /\ req' = Request("QueryLatest", NoArg, fault)
    /\ IF ~StorageOk(fault)
       THEN resp' = Response("QueryLatest", 400, FALSE, [error |-> StorageMessage(fault)])
       ELSE IF rows = <<>>
       THEN resp' = Response("QueryLatest", 404, TRUE, [message |-> "No data available"])
       ELSE \E fetched \in OrderByTimestampDesc(rows) :
              resp' = Response("QueryLatest", 200, TRUE, LatestRecord(fetched[1]))
    /\ UNCHANGED <<tableExists, rows, seq, clock>>
    /\ ConcUnchanged

QueryLatest == \E fault \in BOOLEAN : GetLatest(fault)

(* health_check, GET /health *)
HealthCheck ==
    /\ req' = Request("HealthCheck", NoArg, FALSE)
    /\ resp' = Response("HealthCheck", 200, TRUE,
                        [status |-> "healthy", service |-> "ESP8266 IoT Backend",
                         timestamp |-> clock])
    /\ UNCHANGED <<tableExists, rows, seq, clock>>
    /\ ConcUnchanged

(* ----------------------------- aggregates ------------------------------ *)
RECURSIVE Sum(_)
Sum(s) == IF s = <<>> THEN 0 ELSE Head(s) + Sum(Tail(s))

RECURSIVE Least(_)
Least(s) == IF Len(s) = 1 THEN s[1] ELSE Min(Head(s), Least(Tail(s)))

RECURSIVE Greatest(_)
Greatest(s) == IF Len(s) = 1 THEN s[1]
               ELSE IF Head(s) > Greatest(Tail(s)) THEN Head(s) ELSE Greatest(Tail(s))

\* WHERE timestamp >= datetime('now', '-24 hours'), 'now' read once.
InWindow(tbl, now) == SelectSeq(tbl, LAMBDA r : r.timestamp >= now - DaySeconds)

IsValue(v) == v # NULL

\* The column with COALESCE(col, 0): a NULL counted as the value 0.
NullAsZero(tbl, col) ==
    [i \in 1..Len(tbl) |-> IF IsValue(tbl[i][col]) THEN tbl[i][col][1] ELSE 0]

\* The non-NULL values of one column: SQL aggregates skip NULL.
NonNull(tbl, col) ==
    [i \in 1..Len(SelectSeq([j \in 1..Len(tbl) |-> tbl[j][col]], IsValue)) |->
        SelectSeq([j \in 1..Len(tbl) |-> tbl[j][col]], IsValue)[i][1]]

\* An aggregate is NULL over no values, else a fraction <<numerator, denominator>>.
SqlAvg(vs) == IF vs = <<>> THEN NULL ELSE Val(<<Sum(vs), Len(vs)>>)
SqlMin(vs) == IF vs = <<>> THEN NULL ELSE Val(<<Least(vs), 1>>)
SqlMax(vs) == IF vs = <<>> THEN NULL ELSE Val(<<Greatest(vs), 1>>)

\* round(x, 1) in tenths, ties to even, for a fraction x >= 0.
Round1(q) ==
    LET fl  == (10 * q[1]) \div q[2]
        rem == (10 * q[1]) % q[2]
    IN  IF 2 * rem < q[2] THEN fl
        ELSE IF 2 * rem > q[2] THEN fl + 1
        ELSE IF fl % 2 = 0 THEN fl ELSE fl + 1

\* round(row[i], 1) if row[i] else 0: None and zero are both falsy.
Display(x) == IF x = NULL \/ x[1][1] = 0 THEN 0 ELSE Round1(x[1])

StatsBody(tbl) ==
    [total_readings |-> Len(tbl),
     temperature |-> [average |-> Display(SqlAvg(NonNull(tbl, "temperature"))),
                      min |-> Display(SqlMin(NonNull(tbl, "temperature"))),
                      max |-> Display(SqlMax(NonNull(tbl, "temperature")))],
     humidity |-> [average |-> Display(SqlAvg(NonNull(tbl, "humidity"))),
                   min |-> Display(SqlMin(NonNull(tbl, "humidity"))),
                   max |-> Display(SqlMax(NonNull(tbl, "humidity")))],
     gas |-> [average |-> Display(SqlAvg(NonNull(tbl, "gas_analog"))),
              max |-> Display(SqlMax(NonNull(tbl, "gas_analog")))]]

(* get_stats, GET /api/stats.  The request records the 'now' its query read. *)
GetStats(fault) ==
    /\ req' = Request("QueryStats", Val(clock), fault)
    /\ IF ~StorageOk(fault)
       THEN resp' = Response("QueryStats", 400, FALSE, [error |-> StorageMessage(fault)])
       ELSE resp' = Response("QueryStats", 200, TRUE, StatsBody(InWindow(rows, clock)))
    /\ UNCHANGED <<tableExists, rows, seq, clock>>
    /\ ConcUnchanged

QueryStats == \E fault \in BOOLEAN : GetStats(fault)

\* The clear block with a DELETE that removes the oldest row only.
ClearOldestRow(button, confirm, fault) ==
    /\ req' = Request("ClearAll", <<button, confirm>>, fault)
    /\ IF ~(button /\ confirm)
       THEN /\ resp' = Response("ClearAll", 0, TRUE, "")
            /\ UNCHANGED rows
       ELSE IF ~StorageOk(fault)
       THEN /\ resp' = Response("ClearAll", 0, FALSE, StorageMessage(fault))
            /\ UNCHANGED rows
       ELSE /\ rows' = IF rows = <<>> THEN rows ELSE Tail(rows)
            /\ resp' = Response("ClearAll", 0, TRUE, "All data cleared!")
    /\ UNCHANGED <<tableExists, seq, clock>>
    /\ ConcUnchanged

(* The dashboard's "Clear All Data" block: DELETE FROM sensor_readings, run when
   the button and the confirmation checkbox are both set. *)
ClearAllData(button, confirm, fault) ==
    /\ req' = Request("ClearAll", <<button, confirm>>, fault)
    /\ IF ~(button /\ confirm)
       THEN /\ resp' = Response("ClearAll", 0, TRUE, "")
            /\ UNCHANGED rows
       ELSE IF ~StorageOk(fault)
       THEN /\ resp' = Response("ClearAll", 0, FALSE, StorageMessage(fault))
            /\ UNCHANGED rows
       ELSE /\ rows' = <<>>
            /\ resp' = Response("ClearAll", 0, TRUE, "All data cleared!")
    /\ UNCHANGED <<tableExists, seq, clock>>
    /\ ConcUnchanged

ClearAll == \E button \in BOOLEAN, confirm \in BOOLEAN, fault \in BOOLEAN :
                ClearAllData(button, confirm, fault)

Next == \/ Initialize
        \/ Ingest
        \/ QueryRecent
        \/ QueryLatest
        \/ QueryStats
        \/ HealthCheck
        \/ ClearAll
        \/ Tick

Spec == Init /\ [][Next]_vars

(* ------------- ingestion of every subset of the payload keys ------------ *)
IngestAll == \E body \in AllBodies : ReceiveSensorData(body, FALSE, MaxIdAll)

NextAll == Initialize \/ IngestAll

SpecAll == Init /\ [][NextAll]_vars

(* ---------------- receive_sensor_data, statement by statement ----------- *)
ConcPayloads == {PFull, PAlt}

\* Lines 44-51: parse the body and read the five keys into locals.
ParseRequest(t, body) ==
    /\ pc[t] = "idle"
    /\ req' = Request("Ingest", body, FALSE)
    /\ IF body.kind # "mapping"
       THEN /\ resp' = Response("Ingest", 400, FALSE,
                                [status |-> "error", message |-> ParseMessage(body)])
            /\ UNCHANGED <<pc, conn>>
       ELSE /\ pc' = [pc EXCEPT ![t] = "extracted"]
            /\ conn' = [conn EXCEPT ![t] = Extract(body.data)]
            /\ UNCHANGED resp
    /\ UNCHANGED <<tableExists, rows, seq, clock, lock, created>>

\* The INSERT with an id read outside any transaction: no write lock is taken.
ExecuteInsertUnlocked(t, timedOut) ==
    /\ pc[t] = "extracted"
    /\ seq < MaxId
    /\ tableExists
    /\ ~timedOut
    /\ conn' = [conn EXCEPT ![t] = NewRow(seq + 1, clock, conn[t])]
    /\ pc' = [pc EXCEPT ![t] = "inserted"]
    /\ UNCHANGED <<req, resp, lock>>
    /\ UNCHANGED <<tableExists, rows, seq, clock, created>>

\* Lines 54-61: connect and execute the INSERT inside the transaction sqlite3
\* opens for it.  The statement takes the database's write lock; while another
\* connection holds it the statement waits, and fails when its wait times out.
ExecuteInsert(t, timedOut) ==
    /\ pc[t] = "extracted"
    /\ seq < MaxId
    /\ IF tableExists /\ lock = 0
       THEN /\ ~timedOut
            /\ lock' = t
            /\ conn' = [conn EXCEPT ![t] = NewRow(seq + 1, clock, conn[t])]
            /\ pc' = [pc EXCEPT ![t] = "inserted"]
            /\ UNCHANGED <<req, resp>>
       ELSE /\ timedOut \/ ~tableExists
            /\ req' = Request("Ingest", NoArg, TRUE)
            /\ resp' = Response("Ingest", 400, FALSE,
                                [status |-> "error",
                                 message |-> IF tableExists THEN "database is locked"
                                             ELSE StorageMessage(FALSE)])
            /\ conn' = [conn EXCEPT ![t] = <<>>]
            /\ pc' = [pc EXCEPT ![t] = "idle"]
            /\ UNCHANGED lock
    /\ UNCHANGED <<tableExists, rows, seq, clock, created>>

\* Line 63: conn.commit() makes the inserted row visible to other connections
\* and releases the lock; a failing commit leaves the table as it was.
Commit(t, fault) ==
    /\ pc[t] = "inserted"
    /\ lock' = 0
    /\ IF fault
       THEN /\ req' = Request("Ingest", NoArg, TRUE)
            /\ resp' = Response("Ingest", 400, FALSE,
                                [status |-> "error", message |-> "disk I/O error"])
            /\ conn' = [conn EXCEPT ![t] = <<>>]
            /\ pc' = [pc EXCEPT ![t] = "idle"]
            /\ UNCHANGED <<rows, seq>>
       ELSE /\ rows' = Append(rows, conn[t])
            /\ seq' = conn[t].id
            /\ conn' = [conn EXCEPT ![t] = <<>>]
            /\ pc' = [pc EXCEPT ![t] = "committed"]
            /\ UNCHANGED <<req, resp>>
    /\ UNCHANGED <<tableExists, clock, created>>

\* Lines 64-71: close the connection and answer 201.
Acknowledge(t) ==
    /\ pc[t] = "committed"
    /\ pc' = [pc EXCEPT ![t] = "idle"]
    /\ req' = Request("Ingest", NoArg, FALSE)
    /\ resp' = Response("Ingest", 201, TRUE,
                        [status |-> "success", message |-> "Data stored successfully"])
    /\ created' = created + 1
    /\ UNCHANGED <<tableExists, rows, seq, clock, conn, lock>>

Parse == \E t \in Threads, body \in {Mapping(p) : p \in ConcPayloads} \cup NonMappings :
             ParseRequest(t, body)
Execute == \E t \in Threads, timedOut \in BOOLEAN : ExecuteInsert(t, timedOut)
CommitInsert == \E t \in Threads, fault \in BOOLEAN : Commit(t, fault)
Respond == \E t \in Threads : Acknowledge(t)

ConcNext == \/ Initialize
            \/ Parse
            \/ Execute
            \/ CommitInsert
            \/ Respond
            \/ QueryRecent
            \/ QueryLatest
            \/ QueryStats

ConcSpec == Init /\ [][ConcNext]_vars
(* ======================== properties of the service ===================== *)
Fields == {"id", "timestamp", "device_id", "temperature", "humidity",
           "gas_analog", "gas_digital"}

\* a comes before b in the order timestamp descending, then id descending.
Newer(a, b) == \/ a.timestamp > b.timestamp
               \/ (a.timestamp = b.timestamp /\ a.id > b.id)

\* The stored reading that is newest in that order.
IsNewest(r) == \A i \in 1..Len(rows) : rows[i].id = r.id \/ Newer(r, rows[i])

ReadSucceeded(op) == resp.op = op /\ resp.status = 200

\* C1: QueryRecent(limit) with a positive limit returns exactly min(N, limit)
\* records, and they are the first min(N, limit) stored readings in the order
\* timestamp descending, ties broken by id descending.
C1_RecentNewestFirstById ==
    (ReadSucceeded("QueryRecent") /\ LimitArg(req.arg) > 0) =>
        /\ Len(resp.body) = Min(Len(rows), LimitArg(req.arg))
        /\ \A i \in 1..(Len(resp.body) - 1) : Newer(resp.body[i], resp.body[i + 1])
        /\ \A j \in 1..Len(rows) :
              \/ \E i \in 1..Len(resp.body) : resp.body[i].id = rows[j].id
              \/ \A i \in 1..Len(resp.body) : Newer(resp.body[i], rows[j])

\* C2: QueryLatest answers 404 exactly when the table is empty, and otherwise
\* 200 with the reading of greatest timestamp and, among equal timestamps,
\* greatest id.
C2_LatestIsNewestReading ==
    (req.op = "QueryLatest" /\ StorageOk(req.fault)) =>
        /\ resp.status = 404 <=> rows = <<>>
        /\ rows # <<>> =>
              /\ resp.status = 200
              /\ \E i \in 1..Len(rows) :
                    /\ IsNewest(rows[i])
                    /\ \A f \in DOMAIN resp.body : resp.body[f] = rows[i][f]

\* C3: a successful Ingest followed by QueryRecent(1), with no request between
\* them, returns one record holding every ingested field value.
C3_IngestThenRecentRoundTrip ==
    [][(resp.op = "Ingest" /\ resp.status = 201 /\ GetSensorData(Val(1), FALSE)) =>
          /\ resp'.status = 200
          /\ Len(resp'.body) = 1
          /\ \A k \in DOMAIN req.arg.data : resp'.body[1][k] = req.arg.data[k]]_vars

\* What the claim expects a payload's key to be stored as.
Expected(data, k) == IF k \in DOMAIN data THEN data[k]
                     ELSE IF k = "device_id" THEN Val("unknown") ELSE NULL

\* C4: for a mapping payload with any subset of the five keys missing, Ingest
\* answers 201 and adds exactly one reading in which a missing measurement is
\* null, a missing device_id is "unknown", and a supplied field holds its value.
C4_MissingKeysStoredNull ==
    [][\A p \in AllPayloads :
          (tableExists /\ ReceiveSensorData(Mapping(p), FALSE, MaxIdAll)) =>
              /\ resp'.status = 201
              /\ Len(rows') = Len(rows) + 1
              /\ SubSeq(rows', 1, Len(rows)) = rows
              /\ \A k \in Keys : rows'[Len(rows')][k] = Expected(p, k)]_vars

C4_Witness ==
    /\ req.op = "Ingest" /\ resp.status = 201
    /\ DOMAIN req.arg.data = {"humidity", "gas_digital"}
    /\ rows[Len(rows)].device_id = Val("unknown")
    /\ rows[Len(rows)].temperature = NULL
    /\ rows[Len(rows)].humidity = Val(60)

\* The readings of the 24 hours before now, and a column's values among them.
WindowIndices(now) == {i \in 1..Len(rows) : rows[i].timestamp >= now - DaySeconds}
WindowValues(now, col) ==
    {rows[i][col][1] : i \in {j \in WindowIndices(now) : rows[j][col] # NULL}}
LeastOf(S) == IF S = {} THEN 0 ELSE 10 * (CHOOSE m \in S : \A v \in S : m <= v)
GreatestOf(S) == IF S = {} THEN 0 ELSE 10 * (CHOOSE m \in S : \A v \in S : m >= v)

\* C5: QueryStats counts every reading of the trailing 24 hours, takes each
\* column's min and max over that column's non-null values in the window only,
\* and reports 0 for the average, min and max of a column with no such value,
\* with a success status.
C5_StatsExcludeNullsPerColumn ==
    (req.op = "QueryStats" /\ StorageOk(req.fault)) =>
        LET now == req.arg[1]
            T == WindowValues(now, "temperature")
            H == WindowValues(now, "humidity")
            G == WindowValues(now, "gas_analog")
        IN  /\ resp.status = 200
            /\ resp.body.total_readings = Cardinality(WindowIndices(now))
            /\ resp.body.temperature.min = LeastOf(T)
            /\ resp.body.temperature.max = GreatestOf(T)
            /\ resp.body.humidity.min = LeastOf(H)
            /\ resp.body.humidity.max = GreatestOf(H)
            /\ resp.body.gas.max = GreatestOf(G)
            /\ T = {} => resp.body.temperature.average = 0
            /\ H = {} => resp.body.humidity.average = 0
            /\ G = {} => resp.body.gas.average = 0

\* Two readings in the window, one of them without a temperature.
C5_Witness ==
    /\ ReadSucceeded("QueryStats")
    /\ resp.body.total_readings = 2
    /\ \E i \in 1..Len(rows) : rows[i].temperature = NULL
    /\ resp.body.temperature.min = 220
    /\ resp.body.humidity.min = 600

\* C6: an unparseable or non-mapping Ingest payload yields a client-error
\* response, a storage failure on Ingest, QueryRecent, QueryLatest or QueryStats
\* yields a server-error response, and both bodies carry a message.
HasMessage(body) == \E f \in DOMAIN body : f \in {"message", "error"} /\ body[f] # ""
C6_ErrorKindsHaveDistinctClasses ==
    /\ (req.op = "Ingest" /\ req.arg.kind # "mapping") =>
          resp.status \in 400..499 /\ HasMessage(resp.body)
    /\ (/\ req.op \in {"Ingest", "QueryRecent", "QueryLatest", "QueryStats"}
        /\ req.fault
        /\ req.op = "Ingest" => req.arg.kind = "mapping") =>
          resp.status \in 500..599 /\ HasMessage(resp.body)

\* A row with all of its columns as some request supplied them.
Complete(r) == \E p \in ConcPayloads : r = NewRow(r.id, r.timestamp, Extract(p))

\* C7: with Ingest requests interleaved statement by statement with each other
\* and with reads, every stored or returned reading has all of its columns as
\* ingested, ids are not duplicated, and the table holds exactly one reading
\* per Ingest that has committed (acknowledged with 201 or about to be).
C7_AppendIsAtomic ==
    /\ \A i \in 1..Len(rows) : Complete(rows[i])
    /\ \A i, j \in 1..Len(rows) : i < j => rows[i].id < rows[j].id
    /\ Len(rows) = created + Cardinality({t \in Threads : pc[t] = "committed"})
    /\ ReadSucceeded("QueryRecent") =>
          \A i \in 1..Len(resp.body) :
              \E j \in 1..Len(rows) : resp.body[i] = RecentRecord(rows[j])

C7_Witness ==
    /\ \E t, u \in Threads : pc[t] = "inserted" /\ pc[u] = "committed"
    /\ ReadSucceeded("QueryRecent")
    /\ Len(resp.body) = 1
    /\ Len(rows) = 1
    /\ created = 0

Appended == /\ Len(rows') = Len(rows) + 1
            /\ SubSeq(rows', 1, Len(rows)) = rows
            /\ \A i \in 1..Len(rows) : rows[i].id < rows'[Len(rows')].id

\* C8: every step leaves the table unchanged (reads, HealthCheck, Initialize,
\* a failed Ingest), appends one reading and leaves the others as they were
\* (a successful Ingest), or removes every reading (ClearAll).
C8_AppendOnlyExceptClear ==
    [][/\ rows' = rows \/ Appended \/ rows' = <<>>
       /\ (Initialize \/ QueryRecent \/ QueryLatest \/ QueryStats \/ HealthCheck)
              => rows' = rows
       /\ Ingest => IF resp'.status = 201 THEN Appended ELSE rows' = rows
       /\ ClearAll => IF resp'.body = "All data cleared!" THEN rows' = <<>>
                      ELSE rows' = rows]_vars

C8_Witness ==
    /\ resp.op = "ClearAll"
    /\ resp.body = "All data cleared!"
    /\ rows = <<>>
    /\ seq = 2

\* C9: Initialize, in any state of the table, succeeds when the medium works,
\* and leaves the stored readings as they were however often it is called.
C9_InitializeIdempotent ==
    [][\A fault \in BOOLEAN :
          InitDatabase(fault) =>
              /\ rows' = rows
              /\ seq' = seq
              /\ ~fault => (resp'.ok /\ tableExists')]_vars

\* Initialize has just succeeded on a table that already held readings.
C9_Witness ==
    /\ resp.op = "Initialize"
    /\ resp.ok
    /\ Len(rows) = 2

\* C10: every record of a QueryRecent response and the record of a successful
\* QueryLatest response has all seven fields, each equal to the stored value.
C10_RecordsMirrorReading ==
    /\ ReadSucceeded("QueryRecent") =>
          \A i \in 1..Len(resp.body) :
              /\ DOMAIN resp.body[i] = Fields
              /\ \E j \in 1..Len(rows) : \A f \in Fields : resp.body[i][f] = rows[j][f]
    /\ ReadSucceeded("QueryLatest") =>
          /\ DOMAIN resp.body = Fields
          /\ \E j \in 1..Len(rows) : \A f \in Fields : resp.body[f] = rows[j][f]
=============================================================================
